---- MODULE Spec2Model ----
(***************************************************************************)
(* A model of ddo-plotter: the log-line parser and the Trace builder       *)
(* (src/src/data.rs), the multi-trace chart composer (src/src/repr.rs),    *)
(* the dimension parser (src/src/config.rs), the single-trace plot         *)
(* representations with their terminal layout (src/src/trace.rs) and the   *)
(* program's run (src/src/main.rs).                                        *)
(*                                                                         *)
(* Text is a sequence of symbols.  A symbol is one character, except that  *)
(* each keyword of the log grammar ("Explored", "LB", "UB", "Fringe",      *)
(* "sz", "Final") is one symbol standing for exactly that run of           *)
(* characters; "x" stands for any character that is no digit, no white     *)
(* space, no comma, no minus sign and part of no keyword.                  *)
(***************************************************************************)
EXTENDS Integers, Sequences, FiniteSets, TLC

VARIABLES
    line,       \* LogLine::try_from: the &str it is given
    written,    \* how that line was written (what the solver meant to log)
    parsed,     \* LogLine::try_from: its outcome, "Pending" before the call
    source,     \* Trace::from: the lines of the text source
    cursor,     \* Trace::from: number of lines consumed by the for loop
    result,     \* Trace::from: the Trace under construction
    tpc,        \* Trace::from: "loop", "returned" or "panicked"
    dimtxt,     \* Dimension::from_str: the &str it is given
    dimres,     \* Dimension::from_str: its outcome, "Pending" before the call
    ltrace,     \* trace.rs: the Trace that is plotted
    lfringe,    \* trace.rs: the fringe argument of plot_to_term
    ldim,       \* trace.rs: the dim argument of plot_to_term
    probe,      \* trace.rs: what term_size::dimensions() returns
    lrepr,      \* trace.rs: the FringePlotRepr or TracePlotRepr built
    resolved,   \* trace.rs: the (w, h) that plot_to_term binds
    lout,       \* trace.rs: what plot_to_term printed
    lpc,        \* trace.rs: "start", "built", "printed" or "panicked"
    args,       \* main: the command line (Args)
    stdin,      \* main: the text on standard input
    traces,     \* main, repr.rs: the Vec<Trace>
    view,       \* main, repr.rs: the ContinuousView composed
    svg,        \* main: the file saved at args.output
    stdout,     \* main: the text printed
    pc          \* main: "read", "output", "done" or "panic: <message>"

lineVars   == <<line, written, parsed>>
traceVars  == <<source, cursor, result, tpc>>
dimVars    == <<dimtxt, dimres>>
legacyVars == <<ltrace, lfringe, ldim, probe, lrepr, resolved, lout, lpc>>
mainVars   == <<args, stdin, traces, view, svg, stdout, pc>>
vars       == <<lineVars, traceVars, dimVars, legacyVars, mainVars>>

----------------------------------------------------------------------------
(* Bounds of the model *)

\* longest run of leading zeros written in front of a number
MaxZeros == 1
\* longest text source given to Trace::from, in lines
MaxLines == 3

----------------------------------------------------------------------------
(* Characters *)

AsciiDigits == {"0", "1", "2", "3", "4", "5", "6", "7", "8", "9"}
DigitSym    == <<"0", "1", "2", "3", "4", "5", "6", "7", "8", "9">>
\* a decimal digit outside ASCII (ARABIC-INDIC DIGIT THREE): the regex crate's
\* \d is Unicode aware and matches it, str::parse rejects it
UniDigit    == "U+0663"
Spaces      == {" ", "TAB"}

\* \d of the regex crate
IsDigit(c) == c \in AsciiDigits \cup {UniDigit}
\* \s of the regex crate
IsSpace(c) == c \in Spaces

DigitVal(c) == CHOOSE d \in 0..9 : DigitSym[d + 1] = c

----------------------------------------------------------------------------
(* Regex: a pattern is a sequence of elements                              *)
(*   lit  : one literal symbol                                             *)
(*   uint : a named group of one or more digits                            *)
(*   int  : a named group of an optional minus sign and one or more digits *)
(*   ws   : any run of white space                                         *)
(* The runs are greedy.  In every pattern below, what follows a run of     *)
(* digits is a literal that is no digit (or the end of the pattern) and    *)
(* what follows a run of white space is a run of digits, so backtracking   *)
(* into a run never finds a match that the greedy run misses.              *)

\* F(v), the value v computed once
With(v, F(_)) == CHOOSE r \in {F(w) : w \in {v}} : TRUE

Lit(s)   == [t |-> "lit",  s |-> s,  g |-> ""]
UInt(g)  == [t |-> "uint", s |-> "", g |-> g]
\* a signed group written without its optional minus sign
SIntNoMinus(g) == [t |-> "uint", s |-> "", g |-> g]
SInt(g)  == [t |-> "int",  s |-> "", g |-> g]
Ws       == [t |-> "ws",   s |-> "", g |-> ""]

RECURSIVE RunLen(_, _, _)
\* length of the longest run of symbols of class cls ("d" or "s") at pos
RunLen(txt, pos, cls) ==
    IF pos > Len(txt) THEN 0
    ELSE IF (cls = "d" /\ IsDigit(txt[pos])) \/ (cls = "s" /\ IsSpace(txt[pos]))
         THEN 1 + RunLen(txt, pos + 1, cls)
         ELSE 0

NoCaps  == [g \in {} |-> <<>>]
NoMatch == [ok |-> FALSE, caps |-> NoCaps]

RECURSIVE MatchFrom(_, _, _, _, _)
\* the pattern's elements k.. matched against txt at pos
MatchFrom(pat, k, txt, pos, caps) ==
    IF k > Len(pat) THEN [ok |-> TRUE, caps |-> caps]
    ELSE LET e == pat[k] IN
         CASE e.t = "lit" ->
                IF pos <= Len(txt) /\ txt[pos] = e.s
                THEN MatchFrom(pat, k + 1, txt, pos + 1, caps)
                ELSE NoMatch
           [] e.t = "uint" ->
                LET n == RunLen(txt, pos, "d") IN
                IF n = 0 THEN NoMatch
                ELSE MatchFrom(pat, k + 1, txt, pos + n,
                               caps @@ (e.g :> SubSeq(txt, pos, pos + n - 1)))
           [] e.t = "int" ->
                LET m == IF pos <= Len(txt) /\ txt[pos] = "-" THEN 1 ELSE 0
                    n == RunLen(txt, pos + m, "d")
                IN  IF n = 0 THEN NoMatch
                    ELSE MatchFrom(pat, k + 1, txt, pos + m + n,
                                   caps @@ (e.g :> SubSeq(txt, pos, pos + m + n - 1)))
           [] e.t = "ws" ->
                MatchFrom(pat, k + 1, txt, pos + RunLen(txt, pos, "s"), caps)

Least(S) == CHOOSE s \in S : \A u \in S : s <= u

\* Regex::captures: the leftmost match anywhere in txt (the patterns are not
\* anchored), or None
Captures(pat, txt) ==
    With({s \in 1..Len(txt) : MatchFrom(pat, 1, txt, s, NoCaps).ok},
         LAMBDA starts : IF starts = {} THEN NoMatch
                         ELSE MatchFrom(pat, 1, txt, Least(starts), NoCaps))

----------------------------------------------------------------------------
(* str::parse::<usize>, ::<u32>, ::<i32>                                   *)
(* The magnitudes are compared as decimal digit strings, so that the       *)
(* widths are the program's (usize is 64 bits wide).                       *)

UsizeMaxDigits == <<1, 8, 4, 4, 6, 7, 4, 4, 0, 7, 3, 7, 0, 9, 5, 5, 1, 6, 1, 5>>
U32MaxDigits   == <<4, 2, 9, 4, 9, 6, 7, 2, 9, 5>>
I32MaxDigits   == <<2, 1, 4, 7, 4, 8, 3, 6, 4, 7>>
I32MinDigits   == <<2, 1, 4, 7, 4, 8, 3, 6, 4, 8>>

RECURSIVE StripZeros(_)
StripZeros(ds) ==
    IF Len(ds) > 1 /\ ds[1] = "0" THEN StripZeros(Tail(ds)) ELSE ds

RECURSIVE LexGreater(_, _)
\* ds > max, two digit strings of the same length
LexGreater(ds, max) ==
    IF ds = <<>> THEN FALSE
    ELSE IF DigitVal(ds[1]) # max[1] THEN DigitVal(ds[1]) > max[1]
         ELSE LexGreater(Tail(ds), Tail(max))

\* the checked multiply-and-add of from_str_radix overflows
Overflows(ds, max) ==
    LET s == StripZeros(ds) IN
    \/ Len(s) > Len(max)
    \/ Len(s) = Len(max) /\ LexGreater(s, max)

RECURSIVE Accumulate(_, _, _)
\* from_str_radix's loop: acc * 10 + d, or acc * 10 - d for a negative number
Accumulate(ds, acc, sign) ==
    IF ds = <<>> THEN acc
    ELSE Accumulate(Tail(ds), acc * 10 + sign * DigitVal(ds[1]), sign)

ParseErr == [ok |-> FALSE, val |-> 0]

\* an unsigned integer type whose MAX has the decimal digits max
ParseUnsigned(txt, max) ==
    IF txt = <<>> \/ \E i \in 1..Len(txt) : txt[i] \notin AsciiDigits THEN ParseErr
    ELSE IF Overflows(txt, max) THEN ParseErr
    ELSE [ok |-> TRUE, val |-> Accumulate(txt, 0, 1)]

ParseUsize(txt) == ParseUnsigned(txt, UsizeMaxDigits)
ParseU32(txt)   == ParseUnsigned(txt, U32MaxDigits)

ParseI32(txt) ==
    LET neg == txt # <<>> /\ txt[1] = "-"
        ds  == IF neg THEN Tail(txt) ELSE txt
    IN  IF ds = <<>> \/ \E i \in 1..Len(ds) : ds[i] \notin AsciiDigits THEN ParseErr
        ELSE IF Overflows(ds, IF neg THEN I32MinDigits ELSE I32MaxDigits) THEN ParseErr
        ELSE [ok |-> TRUE, val |-> Accumulate(ds, 0, IF neg THEN -1 ELSE 1)]

----------------------------------------------------------------------------
(* LogLine *)

Ongoing(e, l, u, f) ==
    [variant |-> "Ongoing", explored |-> e, lb |-> l, ub |-> u, fringe |-> f]
\* a Final record built with its two captures exchanged
FinalSwapped(e, o) ==
    [variant |-> "Final", explored |-> o, opt_value |-> e]
Final(e, o) ==
    [variant |-> "Final", explored |-> e, opt_value |-> o]

explored(ll) == ll.explored
lb(ll)       == IF ll.variant = "Ongoing" THEN ll.lb ELSE ll.opt_value
ub(ll)       == IF ll.variant = "Ongoing" THEN ll.ub ELSE ll.opt_value
fringe(ll)   == IF ll.variant = "Ongoing" THEN ll.fringe ELSE 0

ONGOING_FMT ==
    << Lit("Explored"), Lit(" "), UInt("explored"),
       Lit(","), Lit(" "), Lit("LB"), Lit(" "), SInt("lb"),
       Lit(","), Lit(" "), Lit("UB"), Lit(" "), SInt("ub"),
       Lit(","), Lit(" "), Lit("Fringe"), Lit(" "), Lit("sz"), Lit(" "), UInt("fringe") >>
FINAL_FMT ==
    << Lit("Final"), Lit(" "), SInt("opt"),
       Lit(","), Lit(" "), Lit("Explored"), Lit(" "), UInt("explored") >>

Ok(v)  == [tag |-> "Ok", val |-> v]
\* a line that matches no pattern treated as a failed unwrap
ErrAborts == [tag |-> "Panic"]
Err    == [tag |-> "Err"]
Panic  == [tag |-> "Panic"]

\* the Ongoing record of the four captures; each .unwrap() of a failed parse
\* panics
OngoingOf(caps) ==
    LET e == ParseUsize(caps["explored"])
        l == ParseI32(caps["lb"])
        u == ParseI32(caps["ub"])
        z == ParseUsize(caps["fringe"])
    IN  IF e.ok /\ l.ok /\ u.ok /\ z.ok
        THEN Ok(Ongoing(e.val, l.val, u.val, z.val))
        ELSE Panic

\* the Final record of the two captures
FinalOf(caps) ==
    LET e == ParseUsize(caps["explored"])
        v == ParseI32(caps["opt"])
    IN  IF e.ok /\ v.ok THEN Ok(Final(e.val, v.val)) ELSE Panic

\* LogLine::try_from(&str): the Ongoing pattern is tried first
LogLineTryFrom(value) ==
    With(Captures(ONGOING_FMT, value), LAMBDA o :
         IF o.ok THEN OngoingOf(o.caps)
         ELSE With(Captures(FINAL_FMT, value), LAMBDA f :
                   IF f.ok THEN FinalOf(f.caps) ELSE Err))

----------------------------------------------------------------------------
(* The lines given to LogLine::try_from                                    *)
(* A line is written from the numbers the solver logs: each number in      *)
(* decimal, a negative one with a minus sign, possibly with leading zeros. *)

RECURSIVE ToDigits(_)
ToDigits(n) ==
    IF n < 10 THEN <<DigitSym[n + 1]>>
    ELSE Append(ToDigits(n \div 10), DigitSym[(n % 10) + 1])

Zeros(z) == [i \in 1..z |-> "0"]

WriteInt(n, z) ==
    IF n < 0 THEN <<"-">> \o Zeros(z) \o ToDigits(-n) ELSE Zeros(z) \o ToDigits(n)

\* the numbers logged
UintVals == {0, 6700}
IntVals  == {-12, -11, 0, 11, 2147483647}

\* a number as written: cls "ok" (val is the number), "over" (too large for
\* the field's type), "uni" (digits outside ASCII) or "none" (no digit at all)
Num(cls, val, text) == [cls |-> cls, val |-> val, text |-> text]

UintNums(z) == {Num("ok", n, WriteInt(n, z)) : n \in UintVals}
IntNums(z)  == {Num("ok", n, WriteInt(n, z)) : n \in IntVals}

\* usize::MAX + 1, i32::MAX + 1, i32::MIN - 1
UsizeOver   == <<"1","8","4","4","6","7","4","4","0","7","3","7","0","9","5","5","1","6","1","6">>
I32Over     == <<"2","1","4","7","4","8","3","6","4","8">>
I32Under    == <<"-","2","1","4","7","4","8","3","6","4","9">>

BadUints == { Num("over", 0, UsizeOver), Num("uni", 0, <<"1", UniDigit>>),
              Num("none", 0, <<>>) }
BadInts  == { Num("over", 0, I32Over), Num("over", 0, I32Under),
              Num("uni", 0, <<"-", UniDigit>>), Num("none", 0, <<"-">>),
              Num("none", 0, <<>>) }

\* the literal text between the numbers of an Ongoing and of a Final line
OngoingLits == << <<"Explored", " ">>, <<",", " ", "LB", " ">>,
                  <<",", " ", "UB", " ">>, <<",", " ", "Fringe", " ", "sz", " ">> >>
FinalLits   == << <<"Final", " ">>, <<",", " ", "Explored", " ">> >>

\* the places (literal k, symbol p of it) where a literal can be damaged
Places(lits) == {<<k, p>> : k \in 1..Len(lits), p \in 1..6} \cap
                {pl \in (1..Len(lits)) \X (1..6) : pl[2] <= Len(lits[pl[1]])}
Intact == <<0, 0>>

\* the literals and the numbers interleaved; the symbol at place dmg, if any,
\* is written as another character
RECURSIVE Interleave(_, _, _, _)
Interleave(lits, nums, k, dmg) ==
    IF k > Len(lits) THEN <<>>
    ELSE (IF dmg[1] = k THEN [lits[k] EXCEPT ![dmg[2]] = "x"] ELSE lits[k])
         \o nums[k].text \o Interleave(lits, nums, k + 1, dmg)

Prefixes == { <<>>, <<"x", " ">>, <<"1">> }
Suffixes == { <<>>, <<" ", "x", "9">> }
\* a Final line's head in front of an Ongoing line
FinalHead == <<"Final", " ", "7", ",", " ">>

\* lines of a solver's log that are no metric lines
Banner == <<"x", " ", "1", "1", " ", "x", " ", "5", "x", " ", "1", " ", "x">>
Dump   == <<" ", "4", " ", "1", "3", " ", "2", "7">>
OtherLines == { <<>>, Banner, Dump, <<"x", " ", "x", " ", "x">>,
                <<"Explored", " ", "5">>, <<"Final", " ", "5">>,
                <<"LB", " ", "1", ",", " ", "UB", " ", "2">> }

\* how a line was written: form is "ongoing", "final", "both" (a Final head in
\* front of an Ongoing line), "neither", or "invalid" (the text matches a
\* pattern and a number of it is no number of the field's type)
Written(form, nums) == [form |-> form, nums |-> nums]

FormOf(base, nums, dmg) ==
    IF dmg # Intact \/ \E k \in 1..Len(nums) : nums[k].cls = "none" THEN "neither"
    ELSE IF \E k \in 1..Len(nums) : nums[k].cls # "ok" THEN "invalid"
    ELSE base

\* well written lines
GoodLines ==
    { [line |-> pre \o Interleave(OngoingLits, nums, 1, Intact) \o suf,
       written |-> Written("ongoing", nums)] :
        pre \in Prefixes, suf \in Suffixes,
        nums \in UNION { UintNums(z) \X IntNums(z) \X IntNums(z) \X UintNums(z) :
                         z \in 0..MaxZeros } }
    \cup
    { [line |-> pre \o Interleave(FinalLits, nums, 1, Intact) \o suf,
       written |-> Written("final", nums)] :
        pre \in Prefixes, suf \in Suffixes,
        nums \in UNION { IntNums(z) \X UintNums(z) : z \in 0..MaxZeros } }
    \cup
    { [line |-> FinalHead \o Interleave(OngoingLits, nums, 1, Intact),
       written |-> Written("both", nums)] :
        nums \in UintNums(0) \X IntNums(0) \X IntNums(0) \X UintNums(0) }

\* lines with one fault: a damaged literal, or a number that is none
OneUint == Num("ok", 6700, WriteInt(6700, 0))
OneInt  == Num("ok", -12, WriteInt(-12, 0))
FaultyLines ==
    { [line |-> pre \o Interleave(OngoingLits, nums, 1, dmg),
       written |-> Written(FormOf("ongoing", nums, dmg), nums)] :
        pre \in Prefixes,
        dmg \in Places(OngoingLits) \cup {Intact},
        nums \in ((BadUints \cup {OneUint}) \X {OneInt} \X {OneInt} \X {OneUint})
            \cup ({OneUint} \X (BadInts \cup {OneInt}) \X {OneInt} \X {OneUint})
            \cup ({OneUint} \X {OneInt} \X (BadInts \cup {OneInt}) \X {OneUint})
            \cup ({OneUint} \X {OneInt} \X {OneInt} \X (BadUints \cup {OneUint})) }
    \cup
    { [line |-> pre \o Interleave(FinalLits, nums, 1, dmg),
       written |-> Written(FormOf("final", nums, dmg), nums)] :
        pre \in Prefixes,
        dmg \in Places(FinalLits) \cup {Intact},
        nums \in ((BadInts \cup {OneInt}) \X {OneUint})
            \cup ({OneInt} \X (BadUints \cup {OneUint})) }
    \cup
    { [line |-> l, written |-> Written("neither", <<>>)] : l \in OtherLines }

Pending == [tag |-> "Pending"]

LineInputs ==
    /\ \E g \in GoodLines \cup FaultyLines :
          /\ line = g.line
          /\ written = g.written
    /\ parsed = Pending

\* the call LogLine::try_from(line)
TryFrom ==
    /\ parsed = Pending
    /\ parsed' = LogLineTryFrom(line)
    /\ UNCHANGED <<line, written>>
    /\ UNCHANGED <<traceVars, dimVars, legacyVars, mainVars>>


----------------------------------------------------------------------------
(* Trace::from(&str): the for loop over the lines of the source *)

None == [some |-> FALSE]
Some(v) == [some |-> TRUE, val |-> v]

\* a record pushed at the front of the vector
PushFront(lines, ll) == <<ll>> \o lines
\* result.lines.push(logline)
Push(lines, ll) == Append(lines, ll)

\* the lines a source is made of, each with the record it was written from
\* (none for a line that is no metric line)
Entry(text, rec) == [text |-> text, rec |-> rec]
LateLine  == <<OneUint, Num("ok", 11, WriteInt(11, 0)), Num("ok", 14, WriteInt(14, 0)),
               Num("ok", 90, WriteInt(90, 0))>>
EarlyLine == <<Num("ok", 5900, WriteInt(5900, 0)), OneInt, Num("ok", 11, WriteInt(11, 0)),
               Num("ok", 890, WriteInt(890, 0))>>
LastLine  == <<Num("ok", 11, WriteInt(11, 0)), Num("ok", 6790, WriteInt(6790, 0))>>
HugeLine  == <<Num("over", 0, UsizeOver), OneInt, OneInt, OneUint>>
SourcePool ==
    { Entry(Interleave(OngoingLits, LateLine, 1, Intact), Some(Ongoing(6700, 11, 14, 90))),
      Entry(Interleave(OngoingLits, EarlyLine, 1, Intact), Some(Ongoing(5900, -12, 11, 890))),
      Entry(Interleave(FinalLits, LastLine, 1, Intact), Some(Final(6790, 11))),
      Entry(Banner, None),
      Entry(Dump, None),
      Entry(<<>>, None),
      Entry(Interleave(OngoingLits, HugeLine, 1, Intact), None) }

RECURSIVE SeqsUpTo(_, _)
\* the sequences of at most n elements of S
SeqsUpTo(S, n) ==
    IF n = 0 THEN {<<>>}
    ELSE LET shorter == SeqsUpTo(S, n - 1) IN
         shorter \cup {Append(q, x) : q \in shorter, x \in S}

EmptyTrace == [name |-> None, lines |-> <<>>]

TraceInputs ==
    /\ source \in SeqsUpTo({en.text : en \in SourcePool \ {Entry(Dump, None)}}, MaxLines)
    /\ cursor = 0
    /\ result = EmptyTrace
    /\ tpc = "loop"

\* the body of the for loop: the next line is parsed, pushed when it parses,
\* dropped when it does not; a panic of the parser ends the call
LoopBody(tr, ln) ==
    With(LogLineTryFrom(ln), LAMBDA r :
         IF r.tag = "Panic" THEN Panic
         ELSE Ok(IF r.tag = "Ok" THEN [tr EXCEPT !.lines = Push(tr.lines, r.val)]
                 ELSE tr))

\* one iteration of the loop
TraceLoop ==
    /\ tpc = "loop"
    /\ cursor < Len(source)
    /\ \E n \in {LoopBody(result, source[cursor + 1])} :
          /\ cursor' = cursor + 1
          /\ result' = IF n.tag = "Ok" THEN n.val ELSE result
          /\ tpc' = IF n.tag = "Ok" THEN "loop" ELSE "panicked"
    /\ UNCHANGED source
    /\ UNCHANGED <<lineVars, dimVars, legacyVars, mainVars>>

\* the loop is over and the Trace is returned
TraceReturn ==
    /\ tpc = "loop"
    /\ cursor = Len(source)
    /\ tpc' = "returned"
    /\ UNCHANGED <<source, cursor, result>>
    /\ UNCHANGED <<lineVars, dimVars, legacyVars, mainVars>>


RECURSIVE TraceFromLoop(_, _)
TraceFromLoop(tr, src) ==
    IF src = <<>> THEN Ok(tr)
    ELSE With(LoopBody(tr, Head(src)), LAMBDA n :
              IF n.tag = "Ok" THEN TraceFromLoop(n.val, Tail(src)) ELSE Panic)

\* Trace::from as one call: the whole loop
TraceFrom(src) == TraceFromLoop(EmptyTrace, src)

----------------------------------------------------------------------------
(* Trace::lb_explored, ub_explored, fringe_explored                        *)
(* A point is a pair of f64; the cast of a usize or an i32 below 2^53 to   *)
(* f64 keeps its value, and the numbers of the model are below 2^31.       *)

RECURSIVE MergeDuplicates(_)
\* the points with, of several points of one x, the first only
MergeDuplicates(pts) ==
    IF pts = <<>> THEN <<>>
    ELSE LET rest == MergeDuplicates(SubSeq(pts, 1, Len(pts) - 1))
             last == pts[Len(pts)]
         IN  IF \E k \in 1..Len(rest) : rest[k][1] = last[1] THEN rest
             ELSE Append(rest, last)
\* lb_explored with the points of one x merged
lb_explored_merged(t) ==
    MergeDuplicates([k \in 1..Len(t.lines) |-> <<explored(t.lines[k]), lb(t.lines[k])>>])
lb_explored(t) ==
    [k \in 1..Len(t.lines) |-> <<explored(t.lines[k]), lb(t.lines[k])>>]
ub_explored(t) ==
    [k \in 1..Len(t.lines) |-> <<explored(t.lines[k]), ub(t.lines[k])>>]
fringe_explored(t) ==
    [k \in 1..Len(t.lines) |-> <<explored(t.lines[k]), fringe(t.lines[k])>>]

----------------------------------------------------------------------------
(* repr.rs: legends, plots and the two views *)

COLORS == <<"#C1EBE1", "#90B9A9", "#FF0000", "#00FF00", "#0000FF">>

\* the legend of a trace whose name is left out
lb_legend_unnamed(t) == "Lower Bound"
lb_legend(t) ==
    IF t.name.some THEN t.name.val \o " - Lower Bound" ELSE "Lower Bound"
ub_legend(t) ==
    IF t.name.some THEN t.name.val \o " - Upper Bound" ELSE "Upper Bound"
fsz_legend(t) ==
    IF t.name.some THEN t.name.val \o " - Frontier Size" ELSE "Frontier Size"

\* plotlib's Plot::new(data).legend(..).point_style(..).line_style(..)
Plot(data, legend, marker, point_colour, line_colour) ==
    [data |-> data, legend |-> Some(legend), marker |-> marker,
     point_colour |-> point_colour, line_colour |-> line_colour]

lb_plot(t, color)  == Plot(lb_explored(t), lb_legend(t), "Circle", color, color)
ub_plot(t, color)  == Plot(ub_explored(t), ub_legend(t), "Cross", color, color)
fsz_plot(t, color) == Plot(fringe_explored(t), fsz_legend(t), "Square", color, color)

\* plotlib's ContinuousView::new(): no representation, no label, no range
ContinuousViewNew ==
    [representations |-> <<>>, x_label |-> None, y_label |-> None, y_range |-> None]
XLabel(v, label) == [v EXCEPT !.x_label = Some(label)]
YLabel(v, label) == [v EXCEPT !.y_label = Some(label)]
YRange(v, low, high) == [v EXCEPT !.y_range = Some(<<low, high>>)]
\* a plot put in front of the plots already added
AddFirst(v, plot) == [v EXCEPT !.representations = <<plot>> \o @]
Add(v, plot) == [v EXCEPT !.representations = Append(@, plot)]

\* the colour of the trace at the next index
ColorOfNext(i) == COLORS[((i + 1) % Len(COLORS)) + 1]
\* COLORS[i % COLORS.len()], i counted from 0
ColorOf(i) == COLORS[(i % Len(COLORS)) + 1]

RECURSIVE BoundsLoop(_, _, _)
\* the for loop of bounds_view from index i on
BoundsLoop(ts, i, v) ==
    IF i >= Len(ts) THEN v
    ELSE BoundsLoop(ts, i + 1,
                    Add(Add(v, lb_plot(ts[i + 1], ColorOf(i))),
                        ub_plot(ts[i + 1], ColorOf(i))))

bounds_view(ts) == BoundsLoop(ts, 0, XLabel(ContinuousViewNew, "Explored Nodes"))

RECURSIVE FringeLoop(_, _, _)
\* the for loop of fringe_view from index i on
FringeLoop(ts, i, v) ==
    IF i >= Len(ts) THEN v
    ELSE FringeLoop(ts, i + 1, Add(v, fsz_plot(ts[i + 1], ColorOf(i))))

fringe_view(ts) == FringeLoop(ts, 0, XLabel(ContinuousViewNew, "Explored Nodes"))

\* the traces given to the views
Named(name, lines) == [name |-> name, lines |-> lines]
TracePool ==
    { Named(None, <<>>),
      Named(Some("run1"), << Ongoing(5900, 11, 14, 890), Ongoing(6700, 11, 12, 90),
                             Final(6790, 11) >>),
      Named(Some("run2"), << Ongoing(6700, -11, -12, 90), Ongoing(6700, -11, -12, 90) >>),
      Named(None, << Ongoing(100, 13, 20, 7), Ongoing(50, -3, 20, 0) >>) }

\* longest list of traces given to a view
MaxTraces == 6

NoView == [composed |-> FALSE]

\* the call bounds_view(&traces)
BoundsViewCall ==
    /\ pc = "call"
    /\ view' = bounds_view(traces)
    /\ pc' = "bounds_view"
    /\ UNCHANGED <<args, stdin, traces, svg, stdout>>
    /\ UNCHANGED <<lineVars, traceVars, dimVars, legacyVars>>

\* the call fringe_view(&traces)
FringeViewCall ==
    /\ pc = "call"
    /\ view' = fringe_view(traces)
    /\ pc' = "fringe_view"
    /\ UNCHANGED <<args, stdin, traces, svg, stdout>>
    /\ UNCHANGED <<lineVars, traceVars, dimVars, legacyVars>>

----------------------------------------------------------------------------
(* config.rs: Dimension::from_str *)

DIM_FMT == << UInt("WIDTH"), Lit(","), Ws, UInt("HEIGHT") >>

DimErr == [tag |-> "Err", msg |-> "Input does not conform to format 'width,height'"]

\* Dimension::from_str(txt); each .unwrap() of a failed parse panics
DimensionFromStr(t) ==
    With(Captures(DIM_FMT, t), LAMBDA c :
         IF c.ok
         THEN LET w == ParseU32(c.caps["WIDTH"])
                  h == ParseU32(c.caps["HEIGHT"])
              IN  IF w.ok /\ h.ok THEN Ok(<<w.val, h.val>>) ELSE Panic
         ELSE DimErr)

\* u32::MAX + 1
U32Over == <<"4","2","9","4","9","6","7","2","9","6">>
DimNums(z) == { Zeros(z) \o <<"8", "0">>, Zeros(z) \o <<"0">>, <<"2", "4">>, U32Over,
                <<"1", UniDigit>>, <<"-", "5">>, <<>> }
DimSeps == { <<",">>, <<",", " ">>, <<",", "TAB", " ">>, <<" ", ",">>, <<"x">>, <<>> }
DimEnds == { <<>>, <<"x">>, <<" ">> }

DimInputs ==
    /\ dimtxt \in { pre \o w \o sep \o h \o post :
                   pre \in DimEnds, post \in DimEnds, sep \in DimSeps,
                   w \in UNION {DimNums(z) : z \in 0..MaxZeros},
                   h \in DimNums(0) }
    /\ dimres = Pending

\* the call Dimension::from_str(dimtxt), made by structopt for --dimension
FromStr ==
    /\ dimres = Pending
    /\ dimres' = DimensionFromStr(dimtxt)
    /\ UNCHANGED dimtxt
    /\ UNCHANGED <<lineVars, traceVars, legacyVars, mainVars>>

----------------------------------------------------------------------------
(* trace.rs: the plot representations of one Trace and plot_to_term        *)
(* A number that the model cannot write as an integer is written as        *)
(* 2^pow + off: Plain(n) is n, and pow is 64 or 32 for a usize or a u32    *)
(* that wrapped around.                                                    *)

Plain(n)      == [pow |-> 0, off |-> n]
Wrapped(w, k) == [pow |-> w, off |-> -k]

\* Iterator::min().unwrap_or(d) with the default taken for the type's maximum
MinOrMaxInt(S, d) == IF S = {} THEN 2147483647 ELSE CHOOSE m \in S : \A x \in S : m <= x
\* Iterator::min().unwrap_or(d)
MinOr(S, d) == IF S = {} THEN d ELSE CHOOSE m \in S : \A x \in S : m <= x
\* Iterator::max().unwrap_or(d)
MaxOr(S, d) == IF S = {} THEN d ELSE CHOOSE m \in S : \A x \in S : m >= x

\* std::cmp::min, std::cmp::max
min(a, b) == IF b < a THEN b ELSE a
max(a, b) == IF b < a THEN a ELSE b

Range(f(_), t) == {f(t.lines[k]) : k \in 1..Len(t.lines)}

\* From<&Trace> for TracePlotRepr
TracePlotReprFrom(t) ==
    LET lowest_lb  == MinOr(Range(lb, t), 0)
        lowest_ub  == MinOr(Range(ub, t), 0)
        highest_lb == MaxOr(Range(lb, t), 0)
        highest_ub == MaxOr(Range(ub, t), 0)
    IN  [kind |-> "TracePlotRepr",
         y_range |-> <<min(lowest_ub, lowest_lb) - 1, max(highest_ub, highest_lb) + 1>>,
         lb_explored |-> lb_explored(t),
         ub_explored |-> ub_explored(t)]

\* From<&Trace> for FringePlotRepr: low and high are cast to f64 before the
\* margin is taken off, so a low of 0 gives -1.0
FringePlotReprFrom(t) ==
    LET low  == MinOr(Range(fringe, t), 0)
        high == MaxOr(Range(fringe, t), 0)
    IN  [kind |-> "FringePlotRepr",
         y_range |-> <<low - 1, high + 1>>,
         fsz_explored |-> fringe_explored(t)]

\* the margin taken off the terminal's size, and the size used when the
\* terminal's is not known
TermMargin     == 10
DefaultWidth   == 45
DefaultHeight  == 15

\* a - b on usize: with overflow checks (a debug build) an underflow panics,
\* without them (a release build) it wraps around
UsizeSub(a, b, checks) ==
    IF a >= b THEN Ok(Plain(a - b))
    ELSE IF checks THEN Panic
    ELSE Ok(Wrapped(64, b - a))

\* usize as u32: the low 32 bits
AsU32(n) == IF n.pow = 64 THEN [n EXCEPT !.pow = 32] ELSE n

\* the (w, h) bound at the head of plot_to_term
ResolveDim(dim, term, checks) ==
    IF dim.some THEN Ok(<<Plain(dim.val[1]), Plain(dim.val[2])>>)
    ELSE IF term.some
    THEN LET w == UsizeSub(term.val[1], TermMargin, checks)
             h == UsizeSub(term.val[2], TermMargin, checks)
         IN  IF w.tag = "Ok" /\ h.tag = "Ok" THEN Ok(<<w.val, h.val>>) ELSE Panic
    ELSE Ok(<<Plain(DefaultWidth), Plain(DefaultHeight)>>)

\* the sizes of a terminal, in columns and rows
TermSizes == { <<80, 24>>, <<120, 40>>, <<10, 10>>, <<5, 24>>, <<80, 9>>, <<0, 0>> }
DimArgs   == { <<100, 30>>, <<5, 5>> }
Opt(S)    == {None} \cup {Some(x) : x \in S}

LegacyInputs ==
    /\ ltrace \in {[lines |-> t.lines] : t \in TracePool}
    /\ lfringe \in BOOLEAN
    /\ ldim \in Opt(DimArgs)
    /\ probe \in Opt(TermSizes)
    /\ lrepr = None
    /\ resolved = None
    /\ lout = None
    /\ lpc = "start"

\* Trace::plot_to_term, first half: TracePlotRepr::from(self)
BuildTracePlotRepr ==
    /\ lpc = "start"
    /\ ~lfringe
    /\ lrepr' = Some(TracePlotReprFrom(ltrace))
    /\ lpc' = "built"
    /\ UNCHANGED <<ltrace, lfringe, ldim, probe, resolved, lout>>
    /\ UNCHANGED <<lineVars, traceVars, dimVars, mainVars>>

\* Trace::plot_to_term, first half: FringePlotRepr::from(self)
BuildFringePlotRepr ==
    /\ lpc = "start"
    /\ lfringe
    /\ lrepr' = Some(FringePlotReprFrom(ltrace))
    /\ lpc' = "built"
    /\ UNCHANGED <<ltrace, lfringe, ldim, probe, resolved, lout>>
    /\ UNCHANGED <<lineVars, traceVars, dimVars, mainVars>>

\* FringePlotRepr::plot_to_term and TracePlotRepr::plot_to_term: the size is
\* resolved, cast to u32 and the page is printed; to_text() is plotlib's and
\* may fail, which the unwrap turns into a panic
PlotToTerm ==
    /\ lpc = "built"
    /\ \E checks \in BOOLEAN, rendered \in BOOLEAN :
          LET r == ResolveDim(ldim, probe, checks) IN
          IF r.tag = "Ok"
          THEN /\ resolved' = Some(r.val)
               /\ lout' = IF rendered
                          THEN Some([dimensions |-> <<AsU32(r.val[1]), AsU32(r.val[2])>>,
                                     y_range |-> lrepr.val.y_range,
                                     x_label |-> "Explored Nodes",
                                     y_label |-> IF lfringe THEN "Fringe Size"
                                                            ELSE "Bound Value"])
                          ELSE None
               /\ lpc' = IF rendered THEN "printed" ELSE "panicked"
          ELSE /\ lpc' = "panicked"
               /\ UNCHANGED <<resolved, lout>>
    /\ UNCHANGED <<ltrace, lfringe, ldim, probe, lrepr>>
    /\ UNCHANGED <<lineVars, traceVars, dimVars, mainVars>>

----------------------------------------------------------------------------
(* main.rs *)

\* a path: the names of its directories and the pieces of its last
\* component, "." being a piece of its own; a path that ends in ".." has no
\* last component
Path(dir, name) == [dir |-> dir, name |-> name]

RECURSIVE Concat(_)
Concat(pieces) == IF pieces = <<>> THEN "" ELSE pieces[1] \o Concat(Tail(pieces))

\* Path::file_stem: None without a last component; the whole name when it has
\* no dot after its first character; else what stands before the last dot
file_stem(path) ==
    IF path.name = <<>> THEN None
    ELSE LET dots == {i \in 2..Len(path.name) : path.name[i] = "."}
         IN  IF dots = {} THEN Some(Concat(path.name))
             ELSE Some(Concat(SubSeq(path.name, 1, MaxOr(dots, 0) - 1)))

\* the files of the run: whether File::open succeeds, whether the lines can
\* be read (those of a directory cannot), and the lines
Missing == [exists |-> FALSE, readable |-> FALSE, lines |-> <<>>]
Text(lines) == [exists |-> TRUE, readable |-> TRUE, lines |-> lines]
PathPool == { Path(<<"logs">>, <<"run1", ".", "log">>),
              Path(<<>>, <<"empty", ".", "tar", ".", "gz">>),
              Path(<<>>, <<".", "hidden">>),
              Path(<<>>, <<"gone", ".", "log">>),
              Path(<<>>, <<"huge", ".", "log">>),
              Path(<<"logs">>, <<>>) }
FileAt(path) ==
    CASE path.name = <<"run1", ".", "log">> ->
            Text(<< Interleave(OngoingLits, EarlyLine, 1, Intact),
                    Banner,
                    Interleave(FinalLits, LastLine, 1, Intact) >>)
      [] path.name = <<"empty", ".", "tar", ".", "gz">> -> Text(<<>>)
      [] path.name = <<".", "hidden">> ->
            Text(<< Interleave(OngoingLits, LateLine, 1, Intact) >>)
      [] path.name = <<"huge", ".", "log">> ->
            Text(<< Interleave(OngoingLits, HugeLine, 1, Intact) >>)
      [] path.name = <<>> -> [Missing EXCEPT !.exists = TRUE]
      [] OTHER -> Missing
FilesAt == [path \in PathPool |-> FileAt(path)]
StdinPool == { <<>>, << Interleave(OngoingLits, LateLine, 1, Intact), Dump >>,
               << Interleave(OngoingLits, HugeLine, 1, Intact) >> }

\* Trace::try_from(&Path): Err when File::open fails; line.unwrap() panics
\* when a line cannot be read; the name is the stem (to_string_lossy keeps
\* the names of the model, which are valid UTF-8)
TraceTryFromPath(path) ==
    LET stem == file_stem(path)
        file == FilesAt[path]
    IN  IF ~file.exists THEN [tag |-> "Err", msg |-> "io::Error"]
        ELSE IF ~file.readable THEN Panic
        ELSE With(TraceFrom(file.lines), LAMBDA t :
                  IF t.tag = "Ok" THEN Ok([t.val EXCEPT !.name = stem]) ELSE Panic)

\* most input files on a command line
MaxInputs == 3

MainInputs ==
    /\ \E input \in Opt(SeqsUpTo(PathPool, MaxInputs)), output \in Opt({"out.svg"}),
          dimension \in Opt(DimArgs), fringe_flag \in BOOLEAN :
          args = [input |-> input, output |-> output, dimension |-> dimension,
                  fringe |-> fringe_flag]
    /\ stdin \in StdinPool
    /\ traces = <<>>
    /\ view = NoView
    /\ svg = None
    /\ stdout = None
    /\ pc = "read"

\* the number of traces the run reads
Sources == IF args.input.some THEN Len(args.input.val) ELSE 1

\* a file that cannot be opened is passed over
ExpectOpenLenient(r) == "read"
\* .expect("Cannot open file") on what Trace::try_from returned
ExpectOpen(r) ==
    CASE r.tag = "Ok"  -> "read"
      [] r.tag = "Err" -> "panic: Cannot open file"
      [] OTHER         -> "panic: unwrap"

\* one step of fnames.iter().map(..).collect(): the next file is read whole
ReadFile ==
    /\ pc = "read"
    /\ args.input.some
    /\ Len(traces) < Len(args.input.val)
    /\ \E r \in {TraceTryFromPath(args.input.val[Len(traces) + 1])} :
          /\ pc' = ExpectOpen(r)
          /\ traces' = IF pc' = "read"
                       THEN Append(traces, IF r.tag = "Ok" THEN r.val ELSE EmptyTrace)
                       ELSE traces
    /\ UNCHANGED <<args, stdin, view, svg, stdout>>
    /\ UNCHANGED <<lineVars, traceVars, dimVars, legacyVars>>

\* vec![Trace::from(BufReader::new(stdin()).lines())]
ReadStdin ==
    /\ pc = "read"
    /\ ~args.input.some
    /\ traces = <<>>
    /\ \E t \in {TraceFrom(stdin)} :
          /\ pc' = IF t.tag = "Ok" THEN "read" ELSE "panic: unwrap"
          /\ traces' = IF t.tag = "Ok" THEN <<t.val>> ELSE traces
    /\ UNCHANGED <<args, stdin, view, svg, stdout>>
    /\ UNCHANGED <<lineVars, traceVars, dimVars, legacyVars>>

\* every trace is read: the view is composed (the mode of line 69 is passed
\* to the view and is no parameter of repr.rs's two functions)
Compose ==
    /\ pc = "read"
    /\ Len(traces) = Sources
    /\ view' = IF args.fringe THEN fringe_view(traces) ELSE bounds_view(traces)
    /\ pc' = "output"
    /\ UNCHANGED <<args, stdin, traces, svg, stdout>>
    /\ UNCHANGED <<lineVars, traceVars, dimVars, legacyVars>>

\* Page::single(&view).save(out).expect("Cannot save output"); save is
\* plotlib's and may fail
Save ==
    /\ pc = "output"
    /\ args.output.some
    /\ \E saved \in BOOLEAN :
          IF saved
          THEN svg' = Some([path |-> args.output.val, view |-> view]) /\ pc' = "done"
          ELSE svg' = svg /\ pc' = "panic: Cannot save output"
    /\ UNCHANGED <<args, stdin, traces, view, stdout>>
    /\ UNCHANGED <<lineVars, traceVars, dimVars, legacyVars>>

\* println!("{}", page.to_text().expect("Cant print to text")): the page has
\* the dimension of the command line, or plotlib's own when there is none
PrintText ==
    /\ pc = "output"
    /\ ~args.output.some
    /\ \E rendered \in BOOLEAN :
          IF rendered
          THEN stdout' = Some([dimensions |-> args.dimension, view |-> view]) /\ pc' = "done"
          ELSE stdout' = stdout /\ pc' = "panic: Cant print to text"
    /\ UNCHANGED <<args, stdin, traces, view, svg>>
    /\ UNCHANGED <<lineVars, traceVars, dimVars, legacyVars>>

----------------------------------------------------------------------------
(* Specifications *)

IdleLine   == line = <<>> /\ written = Written("neither", <<>>) /\ parsed = Pending
IdleTrace  == source = <<>> /\ cursor = 0 /\ result = EmptyTrace /\ tpc = "idle"
IdleDim    == dimtxt = <<>> /\ dimres = Pending
IdleLegacy == /\ ltrace = [lines |-> <<>>] /\ lfringe = FALSE /\ ldim = None
              /\ probe = None /\ lrepr = None /\ resolved = None /\ lout = None
              /\ lpc = "idle"
IdleArgs   == [input |-> None, output |-> None, dimension |-> None, fringe |-> FALSE]
IdleMain   == /\ args = IdleArgs /\ stdin = <<>> /\ traces = <<>> /\ view = NoView
              /\ svg = None /\ stdout = None /\ pc = "idle"

\* the views of repr.rs called on a list of traces
ViewInputs ==
    /\ traces \in SeqsUpTo(TracePool, MaxTraces)
    /\ args = IdleArgs /\ stdin = <<>> /\ view = NoView /\ svg = None /\ stdout = None
    /\ pc = "call"

InitLine   == LineInputs /\ IdleTrace /\ IdleDim /\ IdleLegacy /\ IdleMain
InitTrace  == TraceInputs /\ IdleLine /\ IdleDim /\ IdleLegacy /\ IdleMain
InitDim    == DimInputs /\ IdleLine /\ IdleTrace /\ IdleLegacy /\ IdleMain
InitLegacy == LegacyInputs /\ IdleLine /\ IdleTrace /\ IdleDim /\ IdleMain
InitView   == ViewInputs /\ IdleLine /\ IdleTrace /\ IdleDim /\ IdleLegacy
Init       == MainInputs /\ IdleLine /\ IdleTrace /\ IdleDim /\ IdleLegacy

NextLine   == TryFrom
NextTrace  == TraceLoop \/ TraceReturn
NextDim    == FromStr
NextLegacy == BuildTracePlotRepr \/ BuildFringePlotRepr \/ PlotToTerm
NextView   == BoundsViewCall \/ FringeViewCall
Next       == ReadFile \/ ReadStdin \/ Compose \/ Save \/ PrintText

\* LogLine::try_from on one line
SpecLine   == InitLine /\ [][NextLine]_vars
\* Trace::from on one source
SpecTrace  == InitTrace /\ [][NextTrace]_vars
\* Dimension::from_str on one string
SpecDim    == InitDim /\ [][NextDim]_vars
\* trace.rs's plot_to_term on one trace
SpecLegacy == InitLegacy /\ [][NextLegacy]_vars
\* bounds_view and fringe_view on one list of traces
SpecView   == InitView /\ [][NextView]_vars
\* a run of the program
Spec       == Init /\ [][Next]_vars


----------------------------------------------------------------------------
(* Claims *)

\* C1: an Ongoing line whose four numbers are in range parses to an Ongoing
\* record whose explored(), lb(), ub() and fringe() are exactly the numbers
\* written, in the order written: negative bounds stay negative and a lower
\* bound above the upper bound is kept as it is.
C1_OngoingRecovered ==
    (parsed # Pending /\ written.form \in {"ongoing", "both"}) =>
        /\ parsed.tag = "Ok"
        /\ parsed.val.variant = "Ongoing"
        /\ explored(parsed.val) = written.nums[1].val
        /\ lb(parsed.val) = written.nums[2].val
        /\ ub(parsed.val) = written.nums[3].val
        /\ fringe(parsed.val) = written.nums[4].val

C1_Witness ==
    /\ written.form = "ongoing"
    /\ parsed.tag = "Ok"
    /\ explored(parsed.val) = 6700
    /\ lb(parsed.val) = -11
    /\ ub(parsed.val) = -12
    /\ fringe(parsed.val) = 6700

\* C2: a Final line (that is no Ongoing line) parses to a record whose lb()
\* and ub() are both the optimal value written, negative or not, whose
\* explored() is the explored count written and whose fringe() is 0.
C2_FinalRecovered ==
    (parsed # Pending /\ written.form = "final") =>
        /\ parsed.tag = "Ok"
        /\ lb(parsed.val) = written.nums[1].val
        /\ ub(parsed.val) = written.nums[1].val
        /\ explored(parsed.val) = written.nums[2].val
        /\ fringe(parsed.val) = 0

C2_Witness ==
    /\ written.form = "final"
    /\ parsed.tag = "Ok"
    /\ parsed.val.variant = "Final"
    /\ lb(parsed.val) = -11
    /\ ub(parsed.val) = -11
    /\ explored(parsed.val) = 6700
    /\ fringe(parsed.val) = 0

\* C3: a line that matches neither pattern (a blank line, a banner, a
\* solution dump, a metric line with a damaged literal or a missing number)
\* yields Err(()), and the call does not panic.
C3_OtherLinesRejected ==
    (parsed # Pending /\ written.form = "neither") => parsed.tag = "Err"

C3_Witness ==
    /\ line = Banner
    /\ parsed.tag = "Err"

\* C4: the Trace returned holds one record per line that parses, in the
\* order of the lines, duplicates and decreasing explored counts included,
\* and nothing for the other lines; an empty source gives no record.  While
\* the loop runs the same holds of the lines consumed so far.
RECURSIVE RecordsOf(_)
RecordsOf(src) ==
    IF src = <<>> THEN <<>>
    ELSE LET en == CHOOSE x \in SourcePool : x.text = Head(src) IN
         (IF en.rec.some THEN <<en.rec.val>> ELSE <<>>) \o RecordsOf(Tail(src))

C4_TraceInLineOrder ==
    /\ tpc \in {"loop", "returned"} =>
          result.lines = RecordsOf(SubSeq(source, 1, cursor))
    /\ tpc = "returned" =>
          /\ cursor = Len(source)
          /\ result.name = None
          /\ (source = <<>> => result.lines = <<>>)

C4_Witness ==
    /\ tpc = "returned"
    /\ Len(source) = 3
    /\ source[2] = Banner
    /\ Len(result.lines) = 2
    /\ explored(result.lines[1]) > explored(result.lines[2])

\* C5: in bounds mode the view composed from a non-empty list of traces has
\* the y range [low, high], low being the least lb() or ub() of any record of
\* any trace less 1 and high the greatest plus 1 (0 standing for both when
\* there is no record).
AllBounds == UNION { Range(lb, traces[i]) \cup Range(ub, traces[i]) : i \in 1..Len(traces) }

C5_BoundsRangeAttached ==
    (pc = "bounds_view" /\ traces # <<>>) =>
        view.y_range = Some(<<MinOr(AllBounds, 0) - 1, MaxOr(AllBounds, 0) + 1>>)

TraceIndexOf(k) == IF pc = "bounds_view" THEN (k - 1) \div 2 ELSE k - 1

C7_PaletteCycles ==
    pc \in {"bounds_view", "fringe_view"} =>
        /\ Len(COLORS) = 5
        /\ \A i \in 1..Len(traces) :
              \E k \in 1..Len(view.representations) : TraceIndexOf(k) = i - 1
        /\ \A k \in 1..Len(view.representations) :
              /\ TraceIndexOf(k) < Len(traces)
              /\ view.representations[k].point_colour = COLORS[(TraceIndexOf(k) % 5) + 1]
              /\ view.representations[k].line_colour = COLORS[(TraceIndexOf(k) % 5) + 1]

C7_Witness ==
    /\ pc = "bounds_view"
    /\ Len(traces) = 6
    /\ traces[1] # traces[6]
    /\ view.representations[1].point_colour = "#C1EBE1"
    /\ view.representations[11].point_colour = "#C1EBE1"
    /\ view.representations[12].point_colour = "#C1EBE1"
    /\ view.representations[10].point_colour = "#0000FF"

\* C8: once plot_to_term has resolved the size of the text, the (w, h) is
\* the dimension given when there is one, whatever the terminal's size; else
\* the terminal's size less 10 each way when it is known; else (45, 15).
C8_LayoutResolution ==
    lpc \in {"printed", "panicked"} =>
        resolved = Some(IF ldim.some THEN <<Plain(ldim.val[1]), Plain(ldim.val[2])>>
                        ELSE IF probe.some
                             THEN <<Plain(probe.val[1] - 10), Plain(probe.val[2] - 10)>>
                             ELSE <<Plain(45), Plain(15)>>)

\* C9: Dimension::from_str gives Ok((w, h)) for exactly the strings made of
\* digits, a comma, optional white space and digits, and for every other
\* string (no comma, other characters, text around, numbers too large for
\* u32) the error that names the 'width,height' format; it never panics.
AllIn(t, from, to, S) == \A i \in from..to : t[i] \in S

IsDimForm(t) ==
    \E c \in 2..Len(t) - 1, h \in 3..Len(t) :
        /\ c < h
        /\ t[c] = ","
        /\ AllIn(t, 1, c - 1, AsciiDigits)
        /\ AllIn(t, c + 1, h - 1, Spaces)
        /\ AllIn(t, h, Len(t), AsciiDigits)

WidthOf(t)  == SubSeq(t, 1, (CHOOSE c \in 1..Len(t) : t[c] = ",") - 1)
HeightOf(t) == SubSeq(t, 1 + Least({h \in 1..Len(t) : AllIn(t, h, Len(t), AsciiDigits)}),
                      Len(t))

C9_DimExactlyTheForm ==
    dimres # Pending =>
        IF IsDimForm(dimtxt) /\ ~Overflows(WidthOf(dimtxt), U32MaxDigits)
                             /\ ~Overflows(HeightOf(dimtxt), U32MaxDigits)
        THEN dimres.tag = "Ok"
        ELSE dimres = DimErr

\* C10: every input is opened and read to its end before the view is
\* composed and before anything is written; a run in which an input cannot be
\* opened or read, or in which the output cannot be written, ends in a panic
\* and has produced neither the text nor the file.
Panics == { "panic: Cannot open file", "panic: unwrap", "panic: Cannot save output",
            "panic: Cant print to text" }

ReadWhole ==
    /\ Len(traces) = Sources
    /\ args.input.some =>
          \A k \in 1..Len(traces) :
              /\ FilesAt[args.input.val[k]].exists
              /\ traces[k].lines = RecordsOf(FilesAt[args.input.val[k]].lines)
    /\ ~args.input.some => traces[1].lines = RecordsOf(stdin)

C10_ReadFirstFailClean ==
    /\ (view # NoView \/ svg # None \/ stdout # None \/ pc \in {"output", "done"})
          => ReadWhole
    /\ pc \in Panics => (svg = None /\ stdout = None)
    /\ pc \notin Panics \cup {"read", "output", "done"} => FALSE
    /\ pc = "done" => (svg # None \/ stdout # None)

C10_Witness ==
    /\ pc = "panic: Cannot open file"
    /\ Len(args.input.val) = 3
    /\ Len(traces) = 2
    /\ ~FilesAt[args.input.val[3]].exists
    /\ view = NoView /\ svg = None /\ stdout = None

\* C11: the view of n traces holds 2n series in bounds mode, those of the
\* trace at place i being the series 2i - 1 (its lb_explored, circles) and 2i
\* (its ub_explored, crosses), and n series in frontier mode, the i-th being
\* the fringe_explored of the i-th trace with squares.
C11_SeriesPerTrace ==
    /\ pc = "bounds_view" =>
          /\ Len(view.representations) = 2 * Len(traces)
          /\ \A i \in 1..Len(traces) :
                /\ view.representations[2 * i - 1].marker = "Circle"
                /\ view.representations[2 * i - 1].data = lb_explored(traces[i])
                /\ view.representations[2 * i].marker = "Cross"
                /\ view.representations[2 * i].data = ub_explored(traces[i])
    /\ pc = "fringe_view" =>
          /\ Len(view.representations) = Len(traces)
          /\ \A i \in 1..Len(traces) :
                /\ view.representations[i].marker = "Square"
                /\ view.representations[i].data = fringe_explored(traces[i])

C11_Witness ==
    /\ pc = "bounds_view"
    /\ Len(traces) = 3
    /\ Len(view.representations) = 6
    /\ traces[1].lines = <<>> /\ Len(traces[2].lines) = 3 /\ Len(traces[3].lines) = 2
    /\ view.representations[3].marker = "Circle"
    /\ view.representations[3].data = << <<5900, 11>>, <<6700, 11>>, <<6790, 11>> >>
    /\ view.representations[4].marker = "Cross"
    /\ view.representations[4].data = << <<5900, 14>>, <<6700, 12>>, <<6790, 11>> >>
    /\ view.representations[1].data = <<>>

\* C12: a trace read from a path has the file's stem for name and the trace
\* read from the standard input has none; in the view the legends of a named
\* trace are "<name> - Lower Bound", "<name> - Upper Bound" and
\* "<name> - Frontier Size", and those of an unnamed trace the bare labels.
LabelOf(t, kind) == Some(IF t.name.some THEN t.name.val \o " - " \o kind ELSE kind)

C12_LegendsNamed ==
    /\ \A k \in 1..Len(traces) :
          IF args.input.some
          THEN traces[k].name.some /\ traces[k].name = file_stem(args.input.val[k])
          ELSE traces[k].name = None
    /\ view # NoView =>
          \A k \in 1..Len(traces) :
              IF args.fringe
              THEN view.representations[k].legend = LabelOf(traces[k], "Frontier Size")
              ELSE /\ view.representations[2 * k - 1].legend
                         = LabelOf(traces[k], "Lower Bound")
                   /\ view.representations[2 * k].legend
                         = LabelOf(traces[k], "Upper Bound")

C12_Witness ==
    /\ pc = "done"
    /\ svg # None
    /\ ~args.fringe
    /\ Len(traces) = 3
    /\ traces[1].name = Some("run1")
    /\ traces[2].name = Some("empty.tar")
    /\ traces[3].name = Some(".hidden")
    /\ view.representations[1].legend = Some("run1 - Lower Bound")
    /\ view.representations[4].legend = Some("empty.tar - Upper Bound")
    /\ view.representations[5].legend = Some(".hidden - Lower Bound")

\* C13: no line matches the Ongoing pattern and the Final pattern both, so
\* that the record of a line is the same when the Final pattern is tried
\* first.
FinalTriedFirst(value) ==
    With(Captures(FINAL_FMT, value), LAMBDA f :
         IF f.ok THEN FinalOf(f.caps)
         ELSE With(Captures(ONGOING_FMT, value), LAMBDA o :
                   IF o.ok THEN OngoingOf(o.caps) ELSE Err))

C13_GrammarsExclusive ==
    parsed # Pending =>
        /\ ~(Captures(ONGOING_FMT, line).ok /\ Captures(FINAL_FMT, line).ok)
        /\ parsed = FinalTriedFirst(line)

\* C14: a call that projects the traces leaves them as they were, and each
\* of lb_explored, ub_explored and fringe_explored of a trace of n records is
\* n points, the k-th being (explored(), lb()), (explored(), ub()) and
\* (explored(), fringe()) of the k-th record: no point is merged, dropped or
\* moved, whatever the order of the x.
C14_ProjectionsKeepRecords ==
    [][ /\ traces' = traces
        /\ pc' = "bounds_view" =>
              \A i \in 1..Len(traces) :
                  LET recs == traces[i].lines
                      lbs  == view'.representations[2 * i - 1].data
                      ubs  == view'.representations[2 * i].data
                  IN  /\ Len(lbs) = Len(recs)
                      /\ Len(ubs) = Len(recs)
                      /\ \A k \in 1..Len(recs) :
                            /\ lbs[k] = <<explored(recs[k]), lb(recs[k])>>
                            /\ ubs[k] = <<explored(recs[k]), ub(recs[k])>>
        /\ pc' = "fringe_view" =>
              \A i \in 1..Len(traces) :
                  LET recs == traces[i].lines
                      szs  == view'.representations[i].data
                  IN  /\ Len(szs) = Len(recs)
                      /\ \A k \in 1..Len(recs) :
                            szs[k] = <<explored(recs[k]), fringe(recs[k])>>
      ]_vars

C14_Witness ==
    /\ pc = "bounds_view"
    /\ Len(traces) = 2
    /\ traces[1].lines = << Ongoing(6700, -11, -12, 90), Ongoing(6700, -11, -12, 90) >>
    /\ traces[2].lines = << Ongoing(100, 13, 20, 7), Ongoing(50, -3, 20, 0) >>
    /\ view.representations[1].data = << <<6700, -11>>, <<6700, -11>> >>
    /\ view.representations[2].data = << <<6700, -12>>, <<6700, -12>> >>
    /\ view.representations[3].data = << <<100, 13>>, <<50, -3>> >>
    /\ view.representations[4].data = << <<100, 20>>, <<50, 20>> >>

\* C15: without a dimension and with a terminal of any size, one below 10
\* columns or rows included, plot_to_term resolves a size (it does not
\* abort) whose two numbers are plain numbers, not wrapped ones, each the
\* terminal's less 10.
C15_NoUnderflow ==
    (lpc \in {"printed", "panicked"} /\ ~ldim.some /\ probe.some) =>
        /\ resolved.some
        /\ \A i \in 1..2 :
              /\ resolved.val[i].pow = 0
              /\ resolved.val[i].off + 10 = probe.val[i]

====
